---- MODULE Spec2Model ----
\* A model of go-xls: the BIFF8 record stream writer (Writer.writeBIFF8 and the
\* record writers it calls), the shared string table, and the CFB container
\* writer (WriteCFB).
\*
\* Bytes are naturals 0..255 and a buffer is a sequence of bytes.  A Go string is
\* the sequence of its code points.  A cell value (interface{}) is a record
\* [kind, s, n, b]: kind is the dynamic type, s the text of a string value, n the
\* value of a numeric one, b the value of a bool.
EXTENDS Integers, Sequences, FiniteSets, TLC

VARIABLES
    data,             \* Writer.data: the table, a sequence of rows of cells
    sheetName,        \* Writer.sheetName
    sst,              \* the sharedStringTable of the running writeBIFF8 / under test
    buf,              \* the bytes.Buffer writeBIFF8 appends to / the writer under test
    worksheetOffset,  \* the local worksheetOffset of writeBIFF8 (line 275)
    pc,               \* position in the operation being modelled
    calls,            \* history: the calls made so far (addString, or the Writer's methods)
    rowIndex,         \* writeRowsAndCells: index of the row being written
    colIndex,         \* writeRowsAndCells: index of the cell being written
    cell,             \* writeRowsAndCells: the cell being written
    rowLens,          \* writeDimensions: len(row) for each row of w.data
    cfb,              \* WriteCFB: its argument length and everything it did to the sink
    rec               \* writeRecord: its arguments, the record type and the payload

vars == <<data, sheetName, sst, buf, worksheetOffset, pc, calls,
          rowIndex, colIndex, cell, rowLens, cfb, rec>>

-----------------------------------------------------------------------------
\* Bounds of the model.

\* Rows of a table given to writeBIFF8.
MaxRows == 2
\* Cells of a table given to writeBIFF8, all rows together.
MaxCells == 3
\* addString calls made on one table in SpecSST.
MaxAdds == 4
\* Rows of a table given to writeDimensions in SpecDim.
MaxDimRows == 2
\* Largest payload, in 512-byte sectors, given to WriteCFB in SpecCFB.
MaxPayloadSectors == 130

-----------------------------------------------------------------------------
\* Little-endian integers (encoding/binary) and Go's integer conversions.

\* uint16(n) of a non-negative int
ToU16(n) == n % 65536

\* byte(n) of a non-negative int
ToByte(n) == n % 256

\* binary.LittleEndian.PutUint16 of uint16(n)
LE16(n) == <<n % 256, (n \div 256) % 256>>

\* binary.LittleEndian.PutUint32 of uint32(n)
LE32(n) == <<n % 256, (n \div 256) % 256, (n \div 65536) % 256, (n \div 16777216) % 256>>

\* make([]byte, n)
Zeros(n) == [i \in 1..n |-> 0]

\* The value of two little-endian bytes at positions p, p+1 (1-based) of b.
U16At(b, p) == b[p] + (256 * b[p + 1])

\* The value of four little-endian bytes at positions p..p+3 (1-based) of b.
U32At(b, p) == b[p] + (256 * b[p + 1]) + (65536 * b[p + 2]) + (16777216 * b[p + 3])

RECURSIVE FlattenRange(_, _, _)
\* The concatenation of ss[lo], ..., ss[hi], by halves.
FlattenRange(ss, lo, hi) ==
    IF lo > hi THEN <<>>
    ELSE IF lo = hi THEN ss[lo]
    ELSE LET mid == (lo + hi) \div 2
         IN  FlattenRange(ss, lo, mid) \o FlattenRange(ss, mid + 1, hi)

\* The concatenation of a sequence of sequences.
Flatten(ss) == FlattenRange(ss, 1, Len(ss))

RECURSIVE Pow2(_)
Pow2(e) == IF e = 0 THEN 1 ELSE 2 * Pow2(e - 1)

\* math.Float64bits(float64(v)), little-endian, for an integer v with |v| < 2^20:
\* sign bit, 11-bit biased exponent, 52-bit mantissa.
Float64bits(v) ==
    IF v = 0 THEN Zeros(8)
    ELSE LET sign == IF v < 0 THEN 1 ELSE 0
             a    == IF v < 0 THEN 0 - v ELSE v
             e    == CHOOSE k \in 0..19 : Pow2(k) <= a /\ a < Pow2(k + 1)
             ex   == e + 1023
             m20  == (a - Pow2(e)) * Pow2(20 - e)
         IN  <<0, 0, 0, 0, m20 % 256, (m20 \div 256) % 256,
               ((ex % 16) * 16) + (m20 \div 65536), (sign * 128) + (ex \div 16)>>

-----------------------------------------------------------------------------
\* BIFF8 record types and BOF constants.

recTypeBOF == 2057
recTypeEOF == 10
recTypeDIMENSIONS == 512
recTypeROW == 520
recTypeNUMBER == 515
recTypeBOOLERR == 517
recTypeSST == 252
recTypeLABELSST == 253
recTypeCODEPAGE == 66
recTypeFONT == 49
recTypeFORMAT == 1054
recTypeXF == 224
recTypeSTYLE == 659
recTypeBOUNDSHEET == 133
recTypeWINDOW1 == 61
recTypeWINDOW2 == 574
recTypeDEFAULTROWHEIGHT == 549
recTypeWSBOOL == 129
recTypeBOOKBOOL == 218
recTypeINTERFACEHDR == 225
recTypeMMS == 193
recTypeINTERFACEEND == 226
recTypeWRITEACCESS == 92
recTypeDATEMODE == 34
recTypePRECISION == 14
recTypeREFRESHALL == 439
recTypeCALCMODE == 13
recTypeCALCCOUNT == 12
recTypeREFMODE == 15
recTypeITERATION == 17
recTypeDELTA == 16
recTypeSAVERECALC == 95
recTypePRINTHEADERS == 42
recTypePRINTGRIDLINES == 43
recTypePROTECT == 18
recTypePASSWORD == 19
recTypeBACKUP == 64
recTypeHIDEOBJ == 141
recTypeWINDOWPROTECT == 25
recTypeDSF == 353
recTypePROT4REV == 431
recTypePASSWORDREV4 == 444
recTypeFNGROUPCOUNT == 317
recTypeUSESELFS == 352
recTypeUNKNOWN9C == 156
recTypeLEFTMARGIN == 38
recTypeRIGHTMARGIN == 39
recTypeTOPMARGIN == 40
recTypeBOTTOMMARGIN == 41
recTypeHCENTER == 131
recTypeVCENTER == 132
recTypeSETUP == 161
recTypeGRIDSET == 130
recTypeGUTS == 128
recTypeOBJPROTECT == 99
recTypeSCENPROTECT == 221
recTypeHBREAK == 27
recTypeVBREAK == 26
recTypeHEADER == 20
recTypeFOOTER == 21

biffVersion == 1536
bofWorkbook == 5
bofWorksheet == 16

-----------------------------------------------------------------------------
\* Strings.

\* The UTF-16LE encoder of golang.org/x/text used by encodeStringForSST: two
\* bytes for a code point of the basic plane, a surrogate pair for the others.
EncodeUTF16(s) ==
    Flatten([i \in 1..Len(s) |->
        IF s[i] <= 65535 THEN LE16(s[i])
        ELSE LE16(55296 + ((s[i] - 65536) \div 1024))
             \o LE16(56320 + ((s[i] - 65536) % 1024))])

\* stringToUTF16LE: two bytes per code point, uint16(r) of each.
stringToUTF16LE(s) == Flatten([i \in 1..Len(s) |-> LE16(ToU16(s[i]))])

\* encodeStringForSST: character count (u16), Unicode flag, UTF-16LE bytes.
encodeStringForSST(s) == LE16(ToU16(Len(s))) \o <<1>> \o EncodeUTF16(s)

-----------------------------------------------------------------------------
\* The shared string table.  stringMap is a Go map: a function on the keys it holds.

newSST == [strings |-> <<>>, stringMap |-> <<>>, uniqueCount |-> 0, totalCount |-> 0]

\* m[s] of a Go map: the value stored for s, the zero value when s is no key.
MapGet(m, s) == IF s \in DOMAIN m THEN m[s] ELSE 0

\* addString without the test for a string the map already holds.
BadAddString(t, s) ==
    [strings |-> Append(t.strings, s),
     stringMap |-> (s :> t.uniqueCount) @@ t.stringMap,
     uniqueCount |-> t.uniqueCount + 1,
     totalCount |-> t.totalCount + 1]

\* addString recording totalCount - 1, not uniqueCount, as the index of a new string.
BadIndexAddString(t, s) ==
    IF s \in DOMAIN t.stringMap
    THEN [t EXCEPT !.totalCount = @ + 1]
    ELSE [strings |-> Append(t.strings, s),
          stringMap |-> (s :> t.totalCount) @@ t.stringMap,
          uniqueCount |-> t.uniqueCount + 1,
          totalCount |-> t.totalCount + 1]

addString(t, s) ==
    IF s \in DOMAIN t.stringMap
    THEN [t EXCEPT !.totalCount = @ + 1]
    ELSE [strings |-> Append(t.strings, s),
          stringMap |-> (s :> t.uniqueCount) @@ t.stringMap,
          uniqueCount |-> t.uniqueCount + 1,
          totalCount |-> t.totalCount + 1]

\* getIndex answering 0 for every string.
BadGetIndex(t, s) == 0

\* Lines 1004-1006: a Go map answers 0 for a key it does not hold.
getIndex(t, s) == MapGet(t.stringMap, s)

-----------------------------------------------------------------------------
\* The record writers.  Each is the sequence of bytes the Go function appends to
\* its writer; the writer of writeBIFF8 is a bytes.Buffer, whose Write never fails.

\* writeRecord with the header counted in the length field.
BadWriteRecord(recType, payload) ==
    LE16(recType) \o LE16(ToU16(Len(payload) + 4)) \o payload

\* writeRecord: type (u16), uint16(len(data)) (u16), then the payload itself.
writeRecord(recType, payload) == LE16(recType) \o LE16(ToU16(Len(payload))) \o payload

writeBOF(subType) ==
    writeRecord(recTypeBOF,
        LE16(biffVersion) \o LE16(subType) \o LE16(3515) \o LE16(1996)
        \o LE32(0) \o LE32(6))

writeEOF == writeRecord(recTypeEOF, <<>>)

writeInterfaceEnd == writeRecord(recTypeINTERFACEEND, <<>>)

\* "Go XLS Writer", then spaces up to 112 bytes
writeWriteAccess ==
    writeRecord(recTypeWRITEACCESS,
        <<71, 111, 32, 88, 76, 83, 32, 87, 114, 105, 116, 101, 114>>
        \o [i \in 1..(112 - 13) |-> 32])

\* fontName "Arial" as a compressed (8-bit) string after the 14-byte header
writeDefaultFont ==
    writeRecord(recTypeFONT,
        LE16(200) \o LE16(0) \o LE16(32767) \o LE16(400) \o LE16(0)
        \o <<0, 0, 1, 0>> \o <<ToByte(5), 0>> \o <<65, 114, 105, 97, 108>>)

\* formatString "General" as a compressed (8-bit) string
writeFormat ==
    writeRecord(recTypeFORMAT,
        LE16(164) \o LE16(ToU16(7)) \o <<0>> \o <<71, 101, 110, 101, 114, 97, 108>>)

\* 0x0000F400 / 0x0000F800 and 0x20C00000 are written byte by byte.
writeXF(isStyleXF, fontIndex) ==
    writeRecord(recTypeXF,
        IF isStyleXF
        THEN LE16(fontIndex) \o LE16(164) \o LE16(65525) \o LE16(32)
             \o <<0, 244, 0, 0>> \o LE32(0) \o <<0, 0, 192, 32>>
        ELSE LE16(fontIndex) \o LE16(164) \o LE16(1) \o LE16(32)
             \o <<0, 248, 0, 0>> \o LE32(0) \o <<0, 0, 192, 32>>)

writeDefaultStyle == writeRecord(recTypeSTYLE, LE16(32768) \o <<0, 255>>)

writeWindow1 ==
    writeRecord(recTypeWINDOW1,
        LE16(0) \o LE16(0) \o LE16(16384) \o LE16(12288) \o LE16(56)
        \o LE16(0) \o LE16(0) \o LE16(1) \o LE16(600))

writeWindow2 ==
    writeRecord(recTypeWINDOW2,
        LE16(1718) \o LE16(0) \o LE16(0) \o LE16(64) \o LE16(0) \o LE16(0)
        \o LE32(0) \o LE16(0))

writeDefaultRowHeight == writeRecord(recTypeDEFAULTROWHEIGHT, LE16(0) \o LE16(255))

\* math.Float64bits(0.001) = 0x3F50624DD2F1A9FC
writeDelta == writeRecord(recTypeDELTA, <<252, 169, 241, 210, 77, 98, 80, 63>>)

\* math.Float64bits(0.75) = 0x3FE8000000000000
writeLeftMargin == writeRecord(recTypeLEFTMARGIN, <<0, 0, 0, 0, 0, 0, 232, 63>>)

writeRightMargin == writeRecord(recTypeRIGHTMARGIN, <<0, 0, 0, 0, 0, 0, 232, 63>>)

writeTopMargin == writeRecord(recTypeTOPMARGIN, Float64bits(1))

writeBottomMargin == writeRecord(recTypeBOTTOMMARGIN, Float64bits(1))

writeSetup ==
    writeRecord(recTypeSETUP,
        LE16(1) \o LE16(100) \o LE16(1) \o LE16(1) \o LE16(1) \o LE16(0)
        \o LE16(600) \o LE16(600) \o LE16(1) \o Zeros(34 - 18))

writeGuts == writeRecord(recTypeGUTS, LE16(0) \o LE16(0) \o LE16(0) \o LE16(0))

writeHeader == writeRecord(recTypeHEADER, LE16(0) \o <<0, 0, 0>>)

writeFooter == writeRecord(recTypeFOOTER, LE16(0) \o <<0, 0, 0>>)

writeCodePage == writeRecord(recTypeCODEPAGE, LE16(1200))

writeWSBool == writeRecord(recTypeWSBOOL, LE16(1217))

writeBookBool == writeRecord(recTypeBOOKBOOL, LE16(0))

writeInterfaceHdr == writeRecord(recTypeINTERFACEHDR, LE16(1200))

writeMMS == writeRecord(recTypeMMS, LE16(0))

writeDateMode == writeRecord(recTypeDATEMODE, LE16(0))

writePrecision == writeRecord(recTypePRECISION, LE16(1))

writeRefreshAll == writeRecord(recTypeREFRESHALL, LE16(0))

writeCalcMode == writeRecord(recTypeCALCMODE, LE16(1))

writeCalcCount == writeRecord(recTypeCALCCOUNT, LE16(100))

writeRefMode == writeRecord(recTypeREFMODE, LE16(1))

writeIteration == writeRecord(recTypeITERATION, LE16(0))

writeSaveRecalc == writeRecord(recTypeSAVERECALC, LE16(1))

writePrintHeaders == writeRecord(recTypePRINTHEADERS, LE16(0))

writePrintGridlines == writeRecord(recTypePRINTGRIDLINES, LE16(0))

writeProtect == writeRecord(recTypePROTECT, LE16(0))

writePassword == writeRecord(recTypePASSWORD, LE16(0))

writeBackup == writeRecord(recTypeBACKUP, LE16(0))

writeHideObj == writeRecord(recTypeHIDEOBJ, LE16(0))

writeWindowProtect == writeRecord(recTypeWINDOWPROTECT, LE16(0))

writeDSF == writeRecord(recTypeDSF, LE16(0))

writeFnGroupCount == writeRecord(recTypeFNGROUPCOUNT, LE16(1))

writeUnknown9C == writeRecord(recTypeUNKNOWN9C, LE16(14))

\* writeUseSelfs writing no record at all.
BadWriteUseSelfs == <<>>

writeUseSelfs == writeRecord(recTypeUSESELFS, LE16(1))

writeProt4Rev == writeRecord(recTypePROT4REV, LE16(0))

writePasswordRev4 == writeRecord(recTypePASSWORDREV4, LE16(0))

writeHCenter == writeRecord(recTypeHCENTER, LE16(0))

writeVCenter == writeRecord(recTypeVCENTER, LE16(0))

writeGridSet == writeRecord(recTypeGRIDSET, LE16(1))

writeObjProtect == writeRecord(recTypeOBJPROTECT, LE16(0))

writeScenProtect == writeRecord(recTypeSCENPROTECT, LE16(0))

writeHBreak == writeRecord(recTypeHBREAK, LE16(0))

writeVBreak == writeRecord(recTypeVBREAK, LE16(0))

-----------------------------------------------------------------------------
\* Cell values and tables.

CellString(s) == [kind |-> "string", s |-> s, n |-> 0, b |-> FALSE]

\* A value of one of the twelve numeric types, holding the integer v.
CellNumber(k, v) == [kind |-> k, s |-> <<>>, n |-> v, b |-> FALSE]

CellBool(v) == [kind |-> "bool", s |-> <<>>, n |-> 0, b |-> v]

\* A value of a named string type (type T string): not a string for the type
\* switch and the type assertion, printed by %v as its text.
CellNamed(s) == [kind |-> "named", s |-> s, n |-> 0, b |-> FALSE]

\* The types writeCell sends to writeNumber.
NumericKinds ==
    {"int", "int8", "int16", "int32", "int64", "uint", "uint8", "uint16",
     "uint32", "uint64", "float32", "float64"}

\* The nil interface value.
CellNil == [kind |-> "nil", s |-> <<>>, n |-> 0, b |-> FALSE]

\* fmt.Sprintf("%v", v) of a value of the default branch: "<nil>" for nil, the
\* text of a value of a named string type.
Sprintf(c) == IF c.kind = "nil" THEN <<60, 110, 105, 108, 62>> ELSE c.s

\* len(row) of every row of a table
RowLens(d) == [i \in 1..Len(d) |-> Len(d[i])]

-----------------------------------------------------------------------------
\* The records that depend on the sheet name and the table.

writeBoundSheet(offset, name) ==
    LET nameBytes == stringToUTF16LE(name)
        nameLen   == Len(name)
    IN  writeRecord(recTypeBOUNDSHEET,
            LE32(offset) \o <<0, 0>> \o <<ToByte(nameLen), 1>> \o nameBytes)

RECURSIVE ColCount(_, _)
\* The loop of writeDimensions over the rows: lens are the len(row) still to visit.
ColCount(lens, colCount) ==
    IF lens = <<>> THEN colCount
    ELSE ColCount(Tail(lens),
                  IF ToU16(Head(lens)) > colCount THEN ToU16(Head(lens)) ELSE colCount)

\* writeDimensions with the last row stored one too high.
BadWriteDimensions(lens) ==
    writeRecord(recTypeDIMENSIONS,
        LE32(0) \o LE32(Len(lens) + 1) \o LE16(0) \o LE16(ColCount(lens, 0)) \o LE16(0))

\* writeDimensions reads len(w.data) and len(row) of each row: lens.
writeDimensions(lens) ==
    writeRecord(recTypeDIMENSIONS,
        LE32(0) \o LE32(Len(lens)) \o LE16(0) \o LE16(ColCount(lens, 0)) \o LE16(0))

writeRow(row, colCount) ==
    writeRecord(recTypeROW,
        LE16(row) \o LE16(0) \o LE16(colCount) \o LE16(255) \o LE16(0) \o LE16(0)
        \o <<0, 0, 15, 0>>)

writeLabelSST(row, col, value, t) ==
    writeRecord(recTypeLABELSST,
        LE16(row) \o LE16(col) \o LE16(0) \o LE32(getIndex(t, value)))

writeNumber(row, col, value) ==
    writeRecord(recTypeNUMBER,
        LE16(row) \o LE16(col) \o LE16(0) \o Float64bits(value))

writeBool(row, col, value) ==
    writeRecord(recTypeBOOLERR,
        LE16(row) \o LE16(col) \o LE16(0) \o <<IF value THEN 1 ELSE 0, 0>>)

writeCell(row, col, value, t) ==
    CASE value.kind = "string" -> writeLabelSST(row, col, value.s, t)
      [] value.kind \in NumericKinds -> writeNumber(row, col, value.n)
      [] value.kind = "bool" -> writeBool(row, col, value.b)
      [] OTHER -> writeLabelSST(row, col, Sprintf(value), t)

\* The body of the inner loop of writeRowsAndCells (line 855) at row r, cell c.
writeCellAt(r, c, value, t) == writeCell(ToU16(r), ToU16(c), value, t)

\* The body of the outer loop of writeRowsAndCells for the row of index r
\* (0-based): its ROW record, then its cells in order.
writeRowAt(r, row, t) ==
    writeRow(ToU16(r), ToU16(Len(row)))
    \o Flatten([c \in 1..Len(row) |-> writeCellAt(r, c - 1, row[c], t)])

writeRowsAndCells(d, t) == Flatten([r \in 1..Len(d) |-> writeRowAt(r - 1, d[r], t)])

writeSST(t) ==
    writeRecord(recTypeSST,
        LE32(t.totalCount) \o LE32(t.uniqueCount)
        \o Flatten([i \in 1..Len(t.strings) |-> encodeStringForSST(t.strings[i])]))

-----------------------------------------------------------------------------
\* writeBIFF8, in the three parts the code has.

RECURSIVE BadPreWalkRow(_, _)
\* The pre-walk with the cells of the default branch of writeCell added as well.
BadPreWalkRow(row, t) ==
    IF row = <<>> THEN t
    ELSE BadPreWalkRow(Tail(row),
            IF Head(row).kind = "string" THEN addString(t, Head(row).s)
            ELSE IF Head(row).kind \in {"named", "nil"} THEN addString(t, Sprintf(Head(row)))
            ELSE t)

RECURSIVE PreWalkRow(_, _)
\* The inner loop of the SST pre-walk (lines 137-141).
PreWalkRow(row, t) ==
    IF row = <<>> THEN t
    ELSE PreWalkRow(Tail(row),
                    IF Head(row).kind = "string" THEN addString(t, Head(row).s) ELSE t)

RECURSIVE KeptPreWalk(_, _)
KeptPreWalk(d, t) == IF d = <<>> THEN t ELSE KeptPreWalk(Tail(d), PreWalkRow(Head(d), t))

\* The pre-walk adding to the table the last serialization left, not to the new
\* one it is given.
BadPreWalk(d, t) == KeptPreWalk(d, sst)

RECURSIVE PreWalk(_, _)
\* The SST pre-walk (lines 135-142).
PreWalk(d, t) == IF d = <<>> THEN t ELSE PreWalk(Tail(d), PreWalkRow(Head(d), t))

\* Lines 144-264: the workbook globals written before the SST.
GlobalsHead ==
    writeBOF(bofWorkbook) \o writeInterfaceHdr \o writeMMS \o writeInterfaceEnd
    \o writeWriteAccess \o writeCodePage \o writeDSF \o writeFnGroupCount
    \o writeUnknown9C \o writeWindowProtect \o writeProtect \o writeObjProtect
    \o writePassword \o writeProt4Rev \o writePasswordRev4 \o writeBackup
    \o writeHideObj \o writeWindow1 \o writeDateMode \o writePrecision
    \o writeRefreshAll \o writeBookBool
    \o Flatten([i \in 1..7 |-> writeDefaultFont])
    \o writeFormat
    \o Flatten([i \in 1..16 |-> writeXF(TRUE, 6)])
    \o writeXF(FALSE, 6) \o writeXF(FALSE, 7)
    \o writeDefaultStyle \o writeUseSelfs

\* boundsheetSize with the name counted in code points, not in bytes.
BadBoundsheetSize(name) == 4 + 6 + 1 + Len(name) + 1

\* Line 273: the size writeBIFF8 expects the BOUNDSHEET record to have.
boundsheetSize(name) == 4 + 6 + 1 + Len(stringToUTF16LE(name)) + 1

\* Line 275: the offset computed before the SST, BOUNDSHEET and EOF are appended;
\* b is the buffer so far.
WorksheetOffset(b, t, name) == Len(b) + Len(writeSST(t)) + boundsheetSize(name) + 4

\* Lines 277-287: the SST bytes, BOUNDSHEET and EOF.
GlobalsTail(b, t, name) ==
    writeSST(t) \o writeBoundSheet(WorksheetOffset(b, t, name), name) \o writeEOF

\* Lines 290-323: the worksheet up to DIMENSIONS.
SheetHead ==
    writeBOF(bofWorksheet) \o writeCalcMode \o writeCalcCount \o writeRefMode
    \o writeIteration \o writeDelta \o writeSaveRecalc \o writeGuts
    \o writeDefaultRowHeight \o writeWSBool

\* Lines 330-387: the records between DIMENSIONS and the rows.
SheetMiddle ==
    writePrintHeaders \o writePrintGridlines \o writeGridSet \o writeHBreak
    \o writeVBreak \o writeHeader \o writeFooter \o writeHCenter \o writeVCenter
    \o writeLeftMargin \o writeRightMargin \o writeTopMargin \o writeBottomMargin
    \o writeSetup \o writeProtect \o writeScenProtect \o writeWindowProtect
    \o writeObjProtect \o writePassword

\* Lines 289-400: the worksheet.
Worksheet(d, t) ==
    SheetHead \o writeDimensions(RowLens(d)) \o SheetMiddle
    \o writeRowsAndCells(d, t) \o writeWindow2 \o writeEOF

-----------------------------------------------------------------------------
\* The inputs of the model.

\* "Hi"
StrHi == <<72, 105>>

\* One code point outside the basic plane (U+1F600): four bytes in the SST.
StrWide == <<128512>>

\* "Sheet1", the name New() sets
DefaultSheetName == <<83, 104, 101, 101, 116, 49>>

\* The cells of the tables given to writeBIFF8.
Cells ==
    {CellString(StrHi), CellString(StrWide), CellNumber("int", 42),
     CellBool(TRUE), CellNamed(StrHi)}

\* The sheet names given to writeBIFF8: the default, and U+1F600 U+65E5.
SheetNames == {DefaultSheetName, <<128512, 26085>>}

\* The rows of at most k cells.
RowsUpTo(k) == UNION {[1..c -> Cells] : c \in 0..k}

RECURSIVE TablesOf(_, _)
\* The tables of exactly r rows and at most k cells.
TablesOf(r, k) ==
    IF r = 0 THEN {<<>>}
    ELSE UNION {{<<row>> \o d : d \in TablesOf(r - 1, k - Len(row))} : row \in RowsUpTo(k)}

Tables == UNION {TablesOf(r, MaxCells) : r \in 0..MaxRows}

\* What the variables of the other specifications hold in this one.
NoCfb ==
    [len |-> 0, failAt |-> 0, writes |-> <<>>, header |-> <<>>, data |-> <<>>, fat |-> <<>>,
     dir |-> <<>>, result |-> "idle"]

\* No call of writeRecord on its own.
NoRec == [type |-> 0, payload |-> <<>>]

IdleRec == rec = NoRec

IdleSST == sst = newSST /\ calls = <<>>

IdleCell == rowIndex = 0 /\ colIndex = 0 /\ cell = CellNil

IdleDim == rowLens = <<>>

IdleBIFF ==
    data = <<>> /\ sheetName = DefaultSheetName /\ buf = <<>> /\ worksheetOffset = 0

-----------------------------------------------------------------------------
\* Spec: writeBIFF8 on a Writer holding a table and a sheet name.

Init ==
    /\ data \in Tables
    /\ sheetName \in SheetNames
    /\ buf = <<>>
    /\ worksheetOffset = 0
    /\ pc = "start"
    /\ IdleSST /\ IdleCell /\ IdleDim
    /\ cfb = NoCfb /\ IdleRec

\* Lines 135-142.
PreWalkSST ==
    /\ pc = "start"
    /\ sst' = PreWalk(data, newSST)
    /\ pc' = "sst"
    /\ UNCHANGED <<data, sheetName, buf, worksheetOffset, calls, rowIndex, colIndex,
                   cell, rowLens, cfb, rec>>

\* Lines 144-287.
WriteGlobals ==
    /\ pc = "sst"
    /\ worksheetOffset' = WorksheetOffset(GlobalsHead, sst, sheetName)
    /\ buf' = GlobalsHead \o GlobalsTail(GlobalsHead, sst, sheetName)
    /\ pc' = "globals"
    /\ UNCHANGED <<data, sheetName, sst, calls, rowIndex, colIndex, cell, rowLens, cfb, rec>>

\* Lines 289-402.
WriteWorksheet ==
    /\ pc = "globals"
    /\ buf' = buf \o Worksheet(data, sst)
    /\ pc' = "done"
    /\ UNCHANGED <<data, sheetName, sst, worksheetOffset, calls, rowIndex, colIndex,
                   cell, rowLens, cfb, rec>>

Next == PreWalkSST \/ WriteGlobals \/ WriteWorksheet

Spec == Init /\ [][Next]_vars

-----------------------------------------------------------------------------
\* Reading a BIFF8 stream back.

RECURSIVE WalkN(_, _, _)
\* At most n records met walking b from offset p (0-based) by (type, length,
\* skip), each with its type, payload length and offset, and the offset where
\* the walk stopped.  A header or payload that runs past the end of b is
\* reported as one record of type -1.  The walk is split in halves.
WalkN(b, p, n) ==
    IF p >= Len(b) \/ n = 0 THEN [recs |-> <<>>, next |-> p]
    ELSE IF n = 1
    THEN IF p + 4 > Len(b)
         THEN [recs |-> <<[type |-> -1, len |-> 0, pos |-> p]>>, next |-> Len(b)]
         ELSE LET ty == U16At(b, p + 1)
                  ln == U16At(b, p + 3)
              IN  IF p + 4 + ln > Len(b)
                  THEN [recs |-> <<[type |-> -1, len |-> ln, pos |-> p]>>, next |-> Len(b)]
                  ELSE [recs |-> <<[type |-> ty, len |-> ln, pos |-> p]>>,
                        next |-> p + 4 + ln]
    ELSE LET h == n \div 2
             a == WalkN(b, p, h)
             c == WalkN(b, a.next, n - h)
         IN  [recs |-> a.recs \o c.recs, next |-> c.next]

\* The records met walking b from offset p to its end: a record takes four
\* bytes at least.
Walk(b, p) == WalkN(b, p, (Len(b) \div 4) + 1).recs

\* The payload of a record met by Walk.
Payload(b, r) == SubSeq(b, r.pos + 5, r.pos + 4 + r.len)

\* The indices in recs of the records of type ty.
IndicesOf(recs, ty) == {i \in 1..Len(recs) : recs[i].type = ty}

\* The least element of a non-empty set of numbers.
Min(S) == CHOOSE x \in S : \A y \in S : x <= y

\* The offset just past the first EOF record of b: where the worksheet starts.
GlobalsEnd(b) ==
    LET recs == Walk(b, 0) IN recs[Min(IndicesOf(recs, recTypeEOF))].pos + 4

\* The string cells of a table, as <<row, column>> positions.
StringCells(d) ==
    {rc \in UNION {{<<r, c>> : c \in 1..Len(d[r])} : r \in 1..Len(d)} :
        d[rc[1]][rc[2]].kind = "string"}

\* The cells of a table, all rows together.
CellCount(d) == Len(Flatten(d))

\* The record types of the cells.
CellRecTypes == {recTypeLABELSST, recTypeNUMBER, recTypeBOOLERR}

-----------------------------------------------------------------------------
\* C1: the offset stored in the first four payload bytes of the BOUNDSHEET record
\* is the offset of the worksheet BOF, the first byte after the EOF record of the
\* workbook globals: the value computed at line 275 is the length the buffer has
\* once SST, BOUNDSHEET and EOF are appended.
C1_BoundSheetOffset ==
    pc \in {"globals", "done"} =>
        LET recs == Walk(buf, 0)
            bs   == IndicesOf(recs, recTypeBOUNDSHEET)
            b1   == Min(bs)
            e1   == Min(IndicesOf(recs, recTypeEOF))
            end  == recs[e1].pos + 4
        IN  /\ bs # {}
            /\ e1 = b1 + 1
            /\ U32At(buf, recs[b1].pos + 5) = end
            /\ worksheetOffset = end
            /\ pc = "globals" => Len(buf) = end
            /\ pc = "done" =>
                 /\ recs[e1 + 1].type = recTypeBOF
                 /\ recs[e1 + 1].pos = end
                 /\ U16At(buf, end + 7) = bofWorksheet

\* A worksheet was written after globals with two strings and a non-default name.
C1_Witness ==
    /\ pc = "done"
    /\ sheetName # DefaultSheetName
    /\ sst.uniqueCount = 2
    /\ worksheetOffset = GlobalsEnd(buf)
    /\ Len(buf) > worksheetOffset

\* C2: walking the worksheet from its BOF by (type, length, skip) meets whole
\* records only and ends on an EOF record of length 0 that ends the stream.
C2_WorksheetFraming ==
    pc = "done" =>
        LET recs == Walk(buf, worksheetOffset)
            last == recs[Len(recs)]
        IN  /\ Len(recs) = 32 + Len(data) + CellCount(data)
            /\ \A i \in 1..Len(recs) : recs[i].type # -1
            /\ recs[1].type = recTypeBOF
            /\ last.type = recTypeEOF
            /\ last.len = 0
            /\ last.pos + 4 = Len(buf)
            /\ \A i \in 1..(Len(recs) - 1) :
                 recs[i + 1].pos = recs[i].pos + 4 + recs[i].len

\* A worksheet of two rows with cells of different record lengths was walked.
C2_Witness ==
    /\ pc = "done"
    /\ Len(data) = 2
    /\ \E r \in 1..Len(data) : \E c \in 1..Len(data[r]) : data[r][c].kind = "string"
    /\ \E r \in 1..Len(data) : \E c \in 1..Len(data[r]) : data[r][c].kind = "int"
    /\ Walk(buf, worksheetOffset)[Len(Walk(buf, worksheetOffset))].type = recTypeEOF

\* C3: after the pre-walk uniqueCount is the number of distinct values of the
\* string cells and totalCount the number of string cells; cells of the other
\* types count in neither.
C3_PreWalkCounts ==
    pc # "start" =>
        /\ sst.uniqueCount = Cardinality({data[rc[1]][rc[2]].s : rc \in StringCells(data)})
        /\ sst.totalCount = Cardinality(StringCells(data))

\* The pre-walk met the same string twice and a cell that is no string.
C3_Witness ==
    /\ pc = "sst"
    /\ sst.totalCount = 2
    /\ sst.uniqueCount = 1
    /\ CellCount(data) = 3

\* C8: an empty table is written without error: the SST record holds
\* total_count 0, unique_count 0 and no string, DIMENSIONS holds last row 0 and
\* last column 0, and no ROW and no cell record lies between the PASSWORD record
\* of the worksheet and WINDOW2.
C8_EmptyTable ==
    (pc = "done" /\ data = <<>>) =>
        LET glob == Walk(buf, 0)
            recs == Walk(buf, worksheetOffset)
            s1   == Min(IndicesOf(glob, recTypeSST))
            d1   == Min(IndicesOf(recs, recTypeDIMENSIONS))
            p1   == Min(IndicesOf(recs, recTypePASSWORD))
        IN  /\ IndicesOf(glob, recTypeSST) # {}
            /\ Payload(buf, glob[s1]) = Zeros(8)
            /\ IndicesOf(recs, recTypeDIMENSIONS) # {}
            /\ recs[d1].len = 14
            /\ U32At(buf, recs[d1].pos + 4 + 5) = 0
            /\ U16At(buf, recs[d1].pos + 4 + 11) = 0
            /\ IndicesOf(recs, recTypeROW) = {}
            /\ \A ty \in CellRecTypes : IndicesOf(recs, ty) = {}
            /\ IndicesOf(recs, recTypePASSWORD) # {}
            /\ recs[p1 + 1].type = recTypeWINDOW2
            /\ recs[Len(recs)].type = recTypeEOF

\* writeBIFF8 ran to its end on the empty table.
C8_Witness ==
    /\ pc = "done"
    /\ data = <<>>
    /\ Walk(buf, worksheetOffset)[Len(Walk(buf, worksheetOffset))].pos + 4 = Len(buf)

-----------------------------------------------------------------------------
\* SpecSST: addString calls on a table made by newSST.

\* The strings added: "Hi", U+1F600 and the empty string.
SSTStrings == {StrHi, StrWide, <<>>}

InitSST ==
    /\ sst = newSST
    /\ calls = <<>>
    /\ pc = "sst"
    /\ IdleBIFF /\ IdleCell /\ IdleDim
    /\ cfb = NoCfb /\ IdleRec

AddString(s) ==
    /\ Len(calls) < MaxAdds
    /\ sst' = addString(sst, s)
    /\ calls' = Append(calls, s)
    /\ UNCHANGED <<data, sheetName, buf, worksheetOffset, pc, rowIndex, colIndex,
                   cell, rowLens, cfb, rec>>

NextSST == \E s \in SSTStrings : AddString(s)

SpecSST == InitSST /\ [][NextSST]_vars

\* The strings of a sequence.
Range(f) == {f[i] : i \in 1..Len(f)}

\* The number of distinct strings added before the first addString(s).
DistinctBefore(cs, s) ==
    LET first == Min({i \in 1..Len(cs) : cs[i] = s})
    IN  Cardinality({cs[j] : j \in 1..(first - 1)})

\* C4: after any addString calls uniqueCount is the length of the string list and
\* the number of keys of the map, the list holds no string twice, and
\* totalCount, the number of calls made, is at least uniqueCount.
C4_SSTCounts ==
    /\ sst.uniqueCount = Len(sst.strings)
    /\ sst.uniqueCount = Cardinality(DOMAIN sst.stringMap)
    /\ \A i, j \in 1..Len(sst.strings) : sst.strings[i] = sst.strings[j] => i = j
    /\ sst.totalCount >= sst.uniqueCount
    /\ sst.totalCount = Len(calls)

\* A string was added a second time, after another one.
C4_Witness ==
    /\ Len(calls) = 3
    /\ calls[1] = calls[3]
    /\ calls[1] # calls[2]
    /\ sst.uniqueCount = 2
    /\ sst.totalCount = 3

\* C5: getIndex(s) of a string that was added is the number of distinct strings
\* first added before it, whatever was added after its first addString, and the
\* string list holds s at that index.
C5_IndexIsInsertionOrder ==
    \A s \in Range(calls) :
        /\ getIndex(sst, s) = DistinctBefore(calls, s)
        /\ getIndex(sst, s) < Len(sst.strings)
        /\ sst.strings[getIndex(sst, s) + 1] = s

\* The second string keeps index 1 after the first one is added again and a
\* third one is added.
C5_Witness ==
    /\ Len(calls) = 4
    /\ calls[3] = calls[1]
    /\ calls[2] # calls[1]
    /\ calls[4] \notin {calls[1], calls[2]}
    /\ getIndex(sst, calls[2]) = 1
    /\ getIndex(sst, calls[4]) = 2

-----------------------------------------------------------------------------
\* SpecCell: one pass of the inner loop of writeRowsAndCells, at any row and
\* column a table can have.

\* Row and column indices, on both sides of 2^8 and of 2^16.
WideIndices == {0, 1, 255, 256, 65535, 65536, 65537}

\* A cell of every type of the type switch of writeCell, and two of its default.
AllCells ==
    {CellString(StrHi), CellString(StrWide), CellBool(TRUE), CellBool(FALSE),
     CellNamed(StrHi), CellNil}
    \cup {CellNumber(k, 42) : k \in NumericKinds}
    \cup {CellNumber("int", 0 - 10), CellNumber("float64", 0)}

InitCell ==
    /\ rowIndex \in WideIndices
    /\ colIndex \in WideIndices
    /\ cell \in AllCells
    /\ sst \in {PreWalk(<<lead \o <<cell>>>>, newSST) :
                   lead \in {<<>>, <<CellString(<<87>>)>>}}
    /\ buf = <<>>
    /\ pc = "cell"
    /\ calls = <<>>
    /\ data = <<>> /\ sheetName = DefaultSheetName /\ worksheetOffset = 0
    /\ IdleDim
    /\ cfb = NoCfb /\ IdleRec

\* Line 855.
EmitCell ==
    /\ pc = "cell"
    /\ buf' = writeCellAt(rowIndex, colIndex, cell, sst)
    /\ pc' = "cellDone"
    /\ UNCHANGED <<data, sheetName, sst, worksheetOffset, calls, rowIndex, colIndex,
                   cell, rowLens, cfb, rec>>

NextCell == EmitCell

SpecCell == InitCell /\ [][NextCell]_vars

\* C6: the cell at row r, column c gives exactly one record: LABELSST with a
\* 10-byte payload for a string, BOOLERR with an 8-byte payload, value byte 1 or 0
\* and kind byte 0 for a bool, NUMBER with a 14-byte payload for a numeric value;
\* its first three 16-bit fields are r, c and 0.
C6_CellRecord ==
    (pc = "cellDone" /\ cell.kind \in {"string", "bool"} \cup NumericKinds) =>
        LET recs == Walk(buf, 0)
        IN  /\ Len(recs) = 1
            /\ cell.kind = "string" =>
                 recs[1].type = recTypeLABELSST /\ recs[1].len = 10
            /\ cell.kind = "bool" =>
                 /\ recs[1].type = recTypeBOOLERR /\ recs[1].len = 8
                 /\ buf[11] = (IF cell.b THEN 1 ELSE 0)
                 /\ buf[12] = 0
            /\ cell.kind \in NumericKinds =>
                 recs[1].type = recTypeNUMBER /\ recs[1].len = 14
            /\ Len(buf) = 4 + recs[1].len
            /\ U16At(buf, 5) = rowIndex
            /\ U16At(buf, 7) = colIndex
            /\ U16At(buf, 9) = 0

-----------------------------------------------------------------------------
\* SpecDim: writeDimensions on a table whose rows have any length.

\* Row lengths, on both sides of 2^8 and of 2^16.
DimLens == {0, 1, 2, 255, 256, 65535, 65536, 65537}

InitDim ==
    /\ rowLens \in UNION {[1..r -> DimLens] : r \in 0..MaxDimRows}
    /\ buf = <<>>
    /\ pc = "dim"
    /\ IdleSST /\ IdleCell
    /\ data = <<>> /\ sheetName = DefaultSheetName /\ worksheetOffset = 0
    /\ cfb = NoCfb /\ IdleRec

\* Line 326.
WriteDims ==
    /\ pc = "dim"
    /\ buf' = writeDimensions(rowLens)
    /\ pc' = "dimDone"
    /\ UNCHANGED <<data, sheetName, sst, worksheetOffset, calls, rowIndex, colIndex,
                   cell, rowLens, cfb, rec>>

NextDim == WriteDims

SpecDim == InitDim /\ [][NextDim]_vars

\* The greatest element of a set of naturals, 0 for the empty set.
Max0(S) == IF S = {} THEN 0 ELSE CHOOSE x \in S : \A y \in S : y <= x

\* C7: the DIMENSIONS record holds first row 0, last row = the number of rows,
\* first column 0, last column = the greatest row length (0 without rows) and
\* two zero bytes.
C7_Dimensions ==
    pc = "dimDone" =>
        /\ Len(buf) = 18
        /\ U16At(buf, 1) = recTypeDIMENSIONS
        /\ U16At(buf, 3) = 14
        /\ U32At(buf, 5) = 0
        /\ U32At(buf, 9) = Len(rowLens)
        /\ U16At(buf, 13) = 0
        /\ U16At(buf, 15) = Max0(Range(rowLens))
        /\ U16At(buf, 17) = 0

-----------------------------------------------------------------------------
\* The CFB container writer.  A uint32 is held as the four bytes PutUint32 writes.

cfbHeaderSize == 512
cfbSectorSize == 512

\* 0xFFFFFFFD
cfbFATSector == <<253, 255, 255, 255>>

\* 0xFFFFFFFE
cfbEndOfChain == <<254, 255, 255, 255>>

\* 0xFFFFFFFF
cfbFreeSector == <<255, 255, 255, 255>>

\* Line 175: the entries of the one FAT sector.
FatEntries == cfbSectorSize \div 4

\* Lines 146-149.
DataSize(n) == IF n < 4096 THEN 4096 ELSE n

\* Line 150.
DataSectors(n) == (DataSize(n) + cfbSectorSize - 1) \div cfbSectorSize

\* Lines 175-189 index fat with 0..dataSectors-1, fatSector and dirSector: an
\* index of FatEntries or more is a run-time panic (index out of range).
FatInRange(n) ==
    /\ \A i \in 0..(DataSectors(n) - 1) : i < FatEntries
    /\ DataSectors(n) < FatEntries
    /\ DataSectors(n) + 1 < FatEntries

\* Lines 175-189, when no index is out of range.
BuildFat(n) ==
    LET dataSectors == DataSectors(n)
        fatSector   == dataSectors
        dirSector   == dataSectors + 1
    IN  [i \in 0..(FatEntries - 1) |->
            IF i = dirSector THEN cfbEndOfChain
            ELSE IF i = fatSector THEN cfbFATSector
            ELSE IF i = dataSectors - 1 THEN cfbEndOfChain
            ELSE IF i < dataSectors THEN LE32(i + 1)
            ELSE cfbFreeSector]

\* Lines 44-62: the header NewCFBHeader returns, the fields it does not set zero.
NewCFBHeader ==
    [Signature          |-> <<208, 207, 17, 224, 161, 177, 26, 225>>,
     CLSID              |-> Zeros(16),
     MinorVersion       |-> 62,
     MajorVersion       |-> 3,
     ByteOrder          |-> 65534,
     SectorShift        |-> 9,
     MiniSectorShift    |-> 6,
     Reserved           |-> Zeros(6),
     TotalSectors       |-> LE32(0),
     FATSectors         |-> LE32(0),
     FirstDirSector     |-> LE32(0),
     TransactionSig     |-> LE32(0),
     MiniStreamCutoff   |-> LE32(4096),
     FirstMiniFATSector |-> cfbEndOfChain,
     MiniFATSectors     |-> LE32(0),
     FirstDIFATSector   |-> cfbEndOfChain,
     DIFATSectors       |-> LE32(0),
     DIFAT              |-> [i \in 0..108 |-> cfbFreeSector]]

\* Lines 159-162: the header of a file of n payload bytes.
CfbHeader(n) ==
    [NewCFBHeader EXCEPT !.FATSectors = LE32(1),
                         !.FirstDirSector = LE32(DataSectors(n) + 1),
                         !.DIFAT = [@ EXCEPT ![0] = LE32(DataSectors(n))]]

\* Lines 65-92: the 512 bytes CFBHeader.WriteTo hands to the sink.
HeaderWriteTo(h) ==
    h.Signature \o h.CLSID \o LE16(h.MinorVersion) \o LE16(h.MajorVersion)
        \o LE16(h.ByteOrder) \o LE16(h.SectorShift) \o LE16(h.MiniSectorShift)
        \o h.Reserved \o h.TotalSectors \o h.FATSectors \o h.FirstDirSector
        \o h.TransactionSig \o h.MiniStreamCutoff \o h.FirstMiniFATSector
        \o h.MiniFATSectors \o h.FirstDIFATSector \o h.DIFATSectors
        \o Flatten([i \in 1..109 |-> h.DIFAT[i - 1]])

\* "Root Entry" and "Workbook", as code points.
RootName == <<82, 111, 111, 116, 32, 69, 110, 116, 114, 121>>

WorkbookName == <<87, 111, 114, 107, 98, 111, 111, 107>>

\* Lines 213-215 and 228-230: the 64-byte name buffer, the name and zeros.
NameBuffer(name) == stringToUTF16LE(name) \o Zeros(64 - Len(stringToUTF16LE(name)))

\* Lines 202-215.
RootEntry ==
    [Name |-> NameBuffer(RootName),
     NameLength |-> ToU16(Len(stringToUTF16LE(RootName)) + 2),
     ObjectType |-> 5, ColorFlag |-> 1,
     LeftSiblingDID |-> cfbFreeSector, RightSiblingDID |-> cfbFreeSector,
     ChildDID |-> LE32(1), StartSector |-> cfbEndOfChain, StreamSize |-> 0]

\* Lines 217-230.
WorkbookEntry(n) ==
    [Name |-> NameBuffer(WorkbookName),
     NameLength |-> ToU16(Len(stringToUTF16LE(WorkbookName)) + 2),
     ObjectType |-> 2, ColorFlag |-> 1,
     LeftSiblingDID |-> cfbFreeSector, RightSiblingDID |-> cfbFreeSector,
     ChildDID |-> cfbFreeSector, StartSector |-> LE32(0), StreamSize |-> DataSize(n)]

\* Lines 232-238.
EmptyEntry ==
    [Name |-> Zeros(64), NameLength |-> 0, ObjectType |-> 0, ColorFlag |-> 0,
     LeftSiblingDID |-> cfbFreeSector, RightSiblingDID |-> cfbFreeSector,
     ChildDID |-> cfbFreeSector, StartSector |-> cfbEndOfChain, StreamSize |-> 0]

\* Lines 112-131: the 128 bytes of a directory entry; CLSID, state bits and the
\* two times are never set, and a stream size (a uint64 below 2^31 here) has a
\* zero upper half.
EntryWriteTo(e) ==
    e.Name \o LE16(e.NameLength) \o <<e.ObjectType, e.ColorFlag>>
        \o e.LeftSiblingDID \o e.RightSiblingDID \o e.ChildDID
        \o Zeros(16) \o Zeros(4) \o Zeros(8) \o Zeros(8)
        \o e.StartSector \o LE32(e.StreamSize) \o Zeros(4)

\* Lines 200 and 240-247: the directory sector, four entries.
DirBuf(n) ==
    EntryWriteTo(RootEntry) \o EntryWriteTo(WorkbookEntry(n))
        \o EntryWriteTo(EmptyEntry) \o EntryWriteTo(EmptyEntry)

\* One Write call on the sink, as WriteCFB makes it.
SinkWrite(kind, size) == [kind |-> kind, size |-> size]

\* WriteCFB looking at the error of the payload write only after the FAT and
\* the directory have been written.
BadWriteCFB(n, failAt) ==
    [len |-> n, failAt |-> failAt,
     writes |-> IF failAt = 1 THEN <<>>
                ELSE IF failAt = 2
                THEN <<SinkWrite("header", cfbHeaderSize), SinkWrite("fat", cfbSectorSize),
                       SinkWrite("directory", cfbSectorSize)>>
                ELSE <<SinkWrite("header", cfbHeaderSize),
                       SinkWrite("data", DataSectors(n) * cfbSectorSize)>>,
     header |-> HeaderWriteTo(CfbHeader(n)), data |-> <<>>, fat |-> <<>>, dir |-> <<>>,
     result |-> IF failAt = 0 THEN "nil" ELSE "error"]

\* WriteCFB on a payload of n bytes and a sink whose Write fails at its call
\* number failAt (never when failAt = 0): the Write calls that succeeded, the
\* header, the FAT sector and the directory sector as built (empty when the call
\* ended before building it), the padded payload where its bytes are modelled
\* (WriteCFBBytes), and how the call ended: "nil", "error" (the error of the
\* sink) or "panic".
WriteCFB(n, failAt) ==
    LET w1 == <<SinkWrite("header", cfbHeaderSize)>>
        w2 == Append(w1, SinkWrite("data", DataSectors(n) * cfbSectorSize))
        w3 == Append(w2, SinkWrite("fat", cfbSectorSize))
        w4 == Append(w3, SinkWrite("directory", cfbSectorSize))
        hdr == HeaderWriteTo(CfbHeader(n))
        end(ws, f, d, r) ==
            [len |-> n, failAt |-> failAt, writes |-> ws, header |-> hdr, data |-> <<>>,
             fat |-> f, dir |-> d, result |-> r]
    IN  IF failAt = 1 THEN end(<<>>, <<>>, <<>>, "error")
        ELSE IF failAt = 2 THEN end(w1, <<>>, <<>>, "error")
        ELSE IF ~FatInRange(n) THEN end(w2, <<>>, <<>>, "panic")
        ELSE IF failAt = 3 THEN end(w2, BuildFat(n), <<>>, "error")
        ELSE IF failAt = 4 THEN end(w3, BuildFat(n), DirBuf(n), "error")
        ELSE end(w4, BuildFat(n), DirBuf(n), "nil")

-----------------------------------------------------------------------------
\* SpecCFB: WriteCFB on payloads of any length up to MaxPayloadSectors sectors
\* and one byte, on a sink that fails at any of its Write calls or at none.

PayloadLens == {(k * cfbSectorSize) + d : k \in 0..MaxPayloadSectors, d \in {0, 1}}

\* The payload length and the sink of a call that has not been made yet.
CfbCall(n, f) ==
    [len |-> n, failAt |-> f, writes |-> <<>>, header |-> <<>>, data |-> <<>>, fat |-> <<>>,
     dir |-> <<>>, result |-> "none"]

InitCFB ==
    /\ cfb \in {CfbCall(n, f) : n \in PayloadLens, f \in 0..4}
    /\ pc = "cfb"
    /\ IdleSST /\ IdleCell /\ IdleDim /\ IdleBIFF /\ IdleRec

CallWriteCFB ==
    /\ cfb.result = "none"
    /\ cfb' = WriteCFB(cfb.len, cfb.failAt)
    /\ UNCHANGED <<data, sheetName, sst, buf, worksheetOffset, pc, calls, rowIndex,
                   colIndex, cell, rowLens, rec>>

NextCFB == CallWriteCFB

SpecCFB == InitCFB /\ [][NextCFB]_vars

RECURSIVE BytesWritten(_)
\* The bytes the sink received, all its Write calls together.
BytesWritten(ws) == IF ws = <<>> THEN 0 ELSE Head(ws).size + BytesWritten(Tail(ws))

\* ceil(max(n, 4096) / 512)
CeilSectors(n) ==
    LET m == IF n > 4096 THEN n ELSE 4096
    IN  CHOOSE k \in 0..(m \div 512) + 1 : 512 * (k - 1) < m /\ m <= 512 * k

\* WriteCFB was called on a sink that never fails.
CfbCalledNoFailure == cfb.result \notin {"idle", "none"} /\ cfb.failAt = 0

\* C9: on a sink that never fails WriteCFB writes 512 + 512 * data_sectors + 512
\* + 512 bytes, data_sectors = ceil(max(n, 4096) / 512): at least 5632 bytes, and
\* a multiple of 512.
C9_OutputLength ==
    CfbCalledNoFailure =>
        /\ cfb.result = "nil"
        /\ BytesWritten(cfb.writes) = 512 + (512 * CeilSectors(cfb.len)) + 512 + 512
        /\ BytesWritten(cfb.writes) >= 5632
        /\ BytesWritten(cfb.writes) % 512 = 0

\* C10: in the FAT sector WriteCFB writes, the entry of each data sector but the
\* last is the next sector and the entry of the last is end-of-chain: the chain
\* from sector 0 is 0, 1, ..., data_sectors - 1, long enough for the stream.
C10_FatChain ==
    CfbCalledNoFailure =>
        LET ds == CeilSectors(cfb.len)
        IN  /\ \E i \in 1..Len(cfb.writes) : cfb.writes[i].kind = "fat"
            /\ DOMAIN cfb.fat = 0..127
            /\ \A i \in 0..(ds - 2) : cfb.fat[i] = LE32(i + 1)
            /\ cfb.fat[ds - 1] = cfbEndOfChain
            /\ ds * 512 >= cfb.len

\* The sink received the sector of this kind.
Written(kind) == \E i \in 1..Len(cfb.writes) : cfb.writes[i].kind = kind

\* Directory slot k of the directory sector (128 bytes, positions from 1).
Slot(k) == SubSeq(cfb.dir, (128 * k) + 1, 128 * (k + 1))

\* The code points of the UTF-16LE name of a slot, up to its terminator.
SlotName(e, points) == [i \in 1..points |-> U16At(e, (2 * i) - 1)]

\* C11: for every payload length n the directory sector WriteCFB writes holds in
\* slot 1 the "Workbook" stream entry (object type 2, start sector 0, stream
\* size max(n, 4096), never below the header's mini-stream cutoff 0x1000) and in
\* slot 0 "Root Entry" (object type 5, child 1, start sector end-of-chain, size
\* 0); each name-length field is 2 * code_points + 2.
C11_Directory ==
    CfbCalledNoFailure =>
        /\ Written("directory")
        /\ Len(cfb.dir) = 512
        /\ LET root == Slot(0)
               wb   == Slot(1)
               m    == IF cfb.len > 4096 THEN cfb.len ELSE 4096
           IN  /\ SlotName(wb, 8) = WorkbookName
               /\ U16At(wb, 17) = 0
               /\ U16At(wb, 65) = (2 * 8) + 2
               /\ wb[67] = 2
               /\ U32At(wb, 117) = 0
               /\ U32At(wb, 121) = m /\ U32At(wb, 125) = 0
               /\ U32At(cfb.header, 57) = 4096
               /\ U32At(wb, 121) >= U32At(cfb.header, 57)
               /\ SlotName(root, 10) = RootName
               /\ U16At(root, 21) = 0
               /\ U16At(root, 65) = (2 * 10) + 2
               /\ root[67] = 5
               /\ U32At(root, 77) = 1
               /\ SubSeq(root, 117, 120) = cfbEndOfChain
               /\ U32At(root, 121) = 0 /\ U32At(root, 125) = 0

\* DIFAT entry i of the header written (76 + 4 * i, positions from 1).
Difat(i) == SubSeq(cfb.header, 77 + (4 * i), 80 + (4 * i))

\* C12: for every payload length the header and the FAT written cross-reference:
\* DIFAT[0] = data_sectors and FAT[data_sectors] is the FAT-sector marker;
\* first_dir_sector = data_sectors + 1 and FAT[data_sectors + 1] is
\* end-of-chain; every FAT entry above data_sectors + 1 is free; the header's FAT
\* sector count is 1 and DIFAT[1..108] are free.
C12_HeaderFatCrossRef ==
    CfbCalledNoFailure =>
        LET ds == CeilSectors(cfb.len)
        IN  /\ Written("header") /\ Written("fat")
            /\ Len(cfb.header) = 512
            /\ Difat(0) = LE32(ds)
            /\ U32At(cfb.header, 49) = ds + 1
            /\ U32At(cfb.header, 45) = 1
            /\ \A i \in 1..108 : Difat(i) = cfbFreeSector
            /\ DOMAIN cfb.fat = 0..127
            /\ cfb.fat[ds] = cfbFATSector
            /\ cfb.fat[ds + 1] = cfbEndOfChain
            /\ \A i \in (ds + 2)..127 : cfb.fat[i] = cfbFreeSector

-----------------------------------------------------------------------------
\* Claims on the order of the workbook globals, on Spec.

\* n copies of x.
Repeat(x, n) == [i \in 1..n |-> x]

\* The record types of the workbook globals, in the order of the format.
GlobalsTypes ==
    <<recTypeBOF, recTypeINTERFACEHDR, recTypeMMS, recTypeINTERFACEEND,
      recTypeWRITEACCESS, recTypeCODEPAGE, recTypeDSF, recTypeFNGROUPCOUNT,
      recTypeUNKNOWN9C, recTypeWINDOWPROTECT, recTypePROTECT, recTypeOBJPROTECT,
      recTypePASSWORD, recTypePROT4REV, recTypePASSWORDREV4, recTypeBACKUP,
      recTypeHIDEOBJ, recTypeWINDOW1, recTypeDATEMODE, recTypePRECISION,
      recTypeREFRESHALL, recTypeBOOKBOOL>>
    \o Repeat(recTypeFONT, 7) \o <<recTypeFORMAT>> \o Repeat(recTypeXF, 18)
    \o <<recTypeSTYLE, recTypeUSESELFS, recTypeSST, recTypeBOUNDSHEET, recTypeEOF>>

\* The records of b from offset 0 up to and including the first EOF.
GlobalsRecs(b) ==
    LET recs == Walk(b, 0) IN SubSeq(recs, 1, Min(IndicesOf(recs, recTypeEOF)))

\* C13: whatever the table and the sheet name, the records from offset 0 up to
\* and including the first EOF are the fixed sequence of the format: 22 records
\* from BOF to BOOKBOOL, 7 FONT, FORMAT, 18 XF (16 style XFs, parent field
\* 0xFFF5, then 2 cell XFs, parent field 1), STYLE, USESELFS, one SST, one
\* BOUNDSHEET, EOF.
C13_GlobalsOrder ==
    pc \in {"globals", "done"} =>
        LET g == GlobalsRecs(buf)
        IN  /\ [i \in 1..Len(g) |-> g[i].type] = GlobalsTypes
            /\ Len(g) = 53
            /\ \A i \in 1..18 :
                  U16At(Payload(buf, g[30 + i]), 5) = IF i <= 16 THEN 65525 ELSE 1

C13_Witness ==
    /\ pc = "globals"
    /\ sheetName # DefaultSheetName
    /\ sst.uniqueCount = 2
    /\ Len(GlobalsRecs(buf)) = 53

-----------------------------------------------------------------------------
\* SpecName: writeBoundSheet on sheet names of any length, SetSheetName and
\* WithSheetName both storing the string they are given unchanged.

\* The lengths of the sheet names, in code points.
NameLens == {0, 1, 6, 12, 31, 255, 256, 257, 300}

\* The code points the names are made of: "A", U+65E5 and U+1F600.
NameChars == {65, 26085, 128512}

NameInputs == {[i \in 1..n |-> ch] : n \in NameLens, ch \in NameChars}

\* The offsets handed to writeBoundSheet (a uint32 below 2^31 here).
NameOffsets == {0, 1437, 70000}

InitName ==
    /\ sheetName \in NameInputs
    /\ worksheetOffset \in NameOffsets
    /\ pc = "name"
    /\ data = <<>> /\ buf = <<>>
    /\ IdleSST /\ IdleCell /\ IdleDim
    /\ cfb = NoCfb /\ IdleRec

WriteBoundSheetRec ==
    /\ pc = "name"
    /\ buf' = writeBoundSheet(worksheetOffset, sheetName)
    /\ pc' = "nameDone"
    /\ UNCHANGED <<data, sheetName, sst, worksheetOffset, calls, rowIndex, colIndex,
                   cell, rowLens, cfb, rec>>

NextName == WriteBoundSheetRec

SpecName == InitName /\ [][NextName]_vars

\* C14: for every sheet name the BOUNDSHEET payload holds, after the 4-byte
\* offset and 2 zero bytes, a character-count byte equal to the number of code
\* points of the name, the Unicode flag 1 and 2 bytes per code point (the code
\* unit itself for a code point of the basic plane); the length field of the
\* record is 8 + 2 * code_points.
C14_BoundSheetName ==
    pc = "nameDone" =>
        LET n == Len(sheetName)
        IN  /\ U16At(buf, 1) = recTypeBOUNDSHEET
            /\ U16At(buf, 3) = 8 + (2 * n)
            /\ Len(buf) = 4 + 8 + (2 * n)
            /\ U32At(buf, 5) = worksheetOffset
            /\ buf[9] = 0 /\ buf[10] = 0
            /\ buf[11] = n
            /\ buf[12] = 1
            /\ \A i \in 1..n :
                  sheetName[i] <= 65535 => U16At(buf, 11 + (2 * i)) = sheetName[i]

-----------------------------------------------------------------------------
\* SpecRecord: writeRecord on payloads of any length a []byte can have, such as
\* the one writeSST builds from all the strings of a table.

\* The payload lengths, in bytes.
RecLens == {0, 1, 2, 8224, 8225, 65535, 65536, 65537}

RecTypes == {recTypeEOF, recTypeSST, recTypeBOUNDSHEET, recTypeLABELSST,
             recTypeNUMBER, recTypeXF, recTypeROW}

InitRecord ==
    /\ rec \in {[type |-> ty, payload |-> [i \in 1..n |-> i % 256]] :
                    ty \in RecTypes, n \in RecLens}
    /\ pc = "rec"
    /\ IdleSST /\ IdleCell /\ IdleDim /\ IdleBIFF
    /\ cfb = NoCfb

WriteRecordCall ==
    /\ pc = "rec"
    /\ buf' = writeRecord(rec.type, rec.payload)
    /\ pc' = "recDone"
    /\ UNCHANGED <<data, sheetName, sst, worksheetOffset, calls, rowIndex, colIndex,
                   cell, rowLens, cfb, rec>>

NextRecord == WriteRecordCall

SpecRecord == InitRecord /\ [][NextRecord]_vars

\* C15: for every record type and payload, writeRecord appends type (LE u16),
\* length (LE u16) and the payload, and the length field is the number of
\* payload bytes written.
C15_RecordLength ==
    pc = "recDone" =>
        /\ Len(buf) = 4 + Len(rec.payload)
        /\ U16At(buf, 1) = rec.type
        /\ SubSeq(buf, 5, Len(buf)) = rec.payload
        /\ U16At(buf, 3) = Len(buf) - 4

-----------------------------------------------------------------------------
\* SpecBig: writeBIFF8 on tables with long strings and on long sheet names; the
\* steps are those of Spec.

\* n times "A".
StrOfLen(n) == [i \in 1..n |-> 65]

\* A string of 4106 characters makes 8 + 3 + 2 * 4106 = 8223 bytes of SST payload.
BigCells == {CellString(StrOfLen(n)) : n \in {1, 4106, 4107}} \cup {CellNumber("int", 42)}

BigTables == {<<>>} \cup {<<row>> : row \in {<<c>> : c \in BigCells}
                                      \cup {<<c, d>> : c \in BigCells, d \in BigCells}}

\* A name of 4108 characters makes 8 + 2 * 4108 = 8224 bytes of BOUNDSHEET payload.
BigNames == {DefaultSheetName} \cup {StrOfLen(n) : n \in {4108, 4109}}

InitBig ==
    /\ data \in BigTables
    /\ sheetName \in BigNames
    /\ buf = <<>>
    /\ worksheetOffset = 0
    /\ pc = "start"
    /\ IdleSST /\ IdleCell /\ IdleDim
    /\ cfb = NoCfb /\ IdleRec

SpecBig == InitBig /\ [][Next]_vars

\* C16: for every table and sheet name, every record writeBIFF8 emits, the SST
\* and the BOUNDSHEET records included, has a payload of at most 8224 bytes.
C16_PayloadBound ==
    pc = "done" =>
        LET recs == Walk(buf, 0)
        IN  \A i \in 1..Len(recs) : recs[i].type # -1 /\ recs[i].len <= 8224

-----------------------------------------------------------------------------
\* SpecPair: addString(s); addString(s) on a table in any state that earlier
\* addString calls can leave.

RECURSIVE AddAll(_)
\* The table after newSST() and one addString per string of cs, in order.
AddAll(cs) ==
    IF cs = <<>> THEN newSST
    ELSE addString(AddAll(SubSeq(cs, 1, Len(cs) - 1)), cs[Len(cs)])

\* The call histories of up to n strings.
Histories(n) == UNION {[1..k -> SSTStrings] : k \in 0..n}

InitPair ==
    /\ calls \in Histories(MaxAdds - 1)
    /\ sst = AddAll(calls)
    /\ pc = "pair"
    /\ IdleBIFF /\ IdleCell /\ IdleDim
    /\ cfb = NoCfb /\ IdleRec

AddStringTwice(s) ==
    /\ pc = "pair"
    /\ sst' = addString(addString(sst, s), s)
    /\ calls' = calls \o <<s, s>>
    /\ pc' = "pairDone"
    /\ UNCHANGED <<data, sheetName, buf, worksheetOffset, rowIndex, colIndex,
                   cell, rowLens, cfb, rec>>

NextPair == \E s \in SSTStrings : AddStringTwice(s)

SpecPair == InitPair /\ [][NextPair]_vars

\* The step of the two calls.
PairStep == pc = "pair" /\ pc' = "pairDone"

\* C17, as stated: for any table state and any string s, addString(s);
\* addString(s) leaves the string list unchanged in length and increases
\* totalCount by exactly 2.
C17_PairKeepsLength ==
    [][PairStep =>
          /\ Len(sst'.strings) = Len(sst.strings)
          /\ sst'.totalCount = sst.totalCount + 2]_vars

\* C17, amended: addString(s); addString(s) increases totalCount by exactly 2;
\* it leaves the string list unchanged when s is in it already, and appends s
\* once, the list growing by one, when it is not.
C17_PairAddsOnce ==
    [][PairStep =>
          LET s == calls'[Len(calls')]
          IN  /\ sst'.totalCount = sst.totalCount + 2
              /\ sst'.strings = IF s \in Range(sst.strings) THEN sst.strings
                                ELSE Append(sst.strings, s)
              /\ sst'.uniqueCount = Len(sst'.strings)]_vars

\* The pair was called with a string the table did not hold, after another one.
C17_Witness ==
    /\ pc = "pairDone"
    /\ Len(calls) = 3
    /\ calls[1] # calls[3]
    /\ calls[2] = calls[3]
    /\ Len(sst.strings) = 2
    /\ sst.totalCount = 3

-----------------------------------------------------------------------------
\* SpecWriter: a Writer from New() and any calls of its methods.  os.Create may
\* fail, and so may the file's Write.

MaxCalls == 5

\* The tables given to Write.
WriterTables ==
    {<<>>,
     <<<<CellString(StrHi), CellNumber("int", 42)>>>>,
     <<<<CellString(StrWide)>>, <<CellString(StrHi), CellString(StrHi)>>>>}

\* Lines 133-403: the stream writeBIFF8 leaves in its buffer, t being its table
\* after the pre-walk.
StreamOf(d, t, name) == GlobalsHead \o GlobalsTail(GlobalsHead, t, name) \o Worksheet(d, t)

\* One call in the history: the method, its argument, what it returned, the
\* stream it built, and the fields of the Writer when it was called.
Call(op, arg, ret, stream) ==
    [op |-> op, arg |-> arg, ret |-> ret, stream |-> stream,
     table |-> data, name |-> sheetName]

\* Lines 96-100.
InitWriter ==
    /\ data = <<>>
    /\ sheetName = DefaultSheetName
    /\ buf = <<>>
    /\ worksheetOffset = 0
    /\ pc = "writer"
    /\ IdleSST /\ IdleCell /\ IdleDim
    /\ cfb = NoCfb /\ IdleRec

\* Lines 103-105.
SetSheetName(name) ==
    /\ Len(calls) < MaxCalls
    /\ sheetName' = name
    /\ calls' = Append(calls, Call("SetSheetName", name, "none", <<>>))
    /\ UNCHANGED <<data, sst, buf, worksheetOffset, pc, rowIndex, colIndex, cell,
                   rowLens, cfb, rec>>

\* Lines 108-111.
Write(d) ==
    /\ Len(calls) < MaxCalls
    /\ data' = d
    /\ calls' = Append(calls, Call("Write", d, "nil", <<>>))
    /\ UNCHANGED <<sheetName, sst, buf, worksheetOffset, pc, rowIndex, colIndex, cell,
                   rowLens, cfb, rec>>

\* Lines 114-131: writeBIFF8 into a new buffer, os.Create, WriteCFB on the file.
SaveAs(createOk, failAt) ==
    /\ Len(calls) < MaxCalls
    /\ sst' = PreWalk(data, newSST)
    /\ worksheetOffset' = WorksheetOffset(GlobalsHead, sst', sheetName)
    /\ buf' = StreamOf(data, sst', sheetName)
    /\ cfb' = IF createOk THEN WriteCFB(Len(buf'), failAt) ELSE NoCfb
    /\ calls' = Append(calls,
                    Call("SaveAs", <<>>,
                         IF ~createOk THEN "failed to create file"
                         ELSE IF cfb'.result = "nil" THEN "nil"
                         ELSE IF cfb'.result = "panic" THEN "panic"
                         ELSE "failed to write CFB container",
                         buf'))
    /\ UNCHANGED <<data, sheetName, pc, rowIndex, colIndex, cell, rowLens, rec>>

\* Close emptying the Writer.
BadClose ==
    /\ Len(calls) < MaxCalls
    /\ calls' = Append(calls, Call("Close", <<>>, "nil", <<>>))
    /\ data' = <<>>
    /\ UNCHANGED <<sheetName, sst, buf, worksheetOffset, pc, rowIndex, colIndex,
                   cell, rowLens, cfb, rec>>

\* Lines 406-408.
Close ==
    /\ Len(calls) < MaxCalls
    /\ calls' = Append(calls, Call("Close", <<>>, "nil", <<>>))
    /\ UNCHANGED <<data, sheetName, sst, buf, worksheetOffset, pc, rowIndex, colIndex,
                   cell, rowLens, cfb, rec>>

NextWriter ==
    \/ \E name \in SheetNames : SetSheetName(name)
    \/ \E d \in WriterTables : Write(d)
    \/ \E createOk \in BOOLEAN, failAt \in {0, 2} :
          (createOk \/ failAt = 0) /\ SaveAs(createOk, failAt)
    \/ Close

SpecWriter == InitWriter /\ [][NextWriter]_vars

\* The argument of the most recent call of a method, or a default.
LastArg(op, default) ==
    LET I == {i \in 1..Len(calls) : calls[i].op = op}
    IN  IF I = {} THEN default ELSE calls[Max0(I)].arg

\* What every state after calls of the Writer's methods satisfies.
WriterFields ==
    /\ sheetName = LastArg("SetSheetName", DefaultSheetName)
    /\ data = LastArg("Write", <<>>)
    /\ \A i \in 1..Len(calls) : calls[i].op \in {"Write", "Close"} => calls[i].ret = "nil"

\* What every call of a method satisfies: Write builds no stream and touches no
\* sink, Close changes nothing, SaveAs and Close leave both fields alone.
WriterStep ==
    calls' # calls =>
        LET c == calls'[Len(calls')]
        IN  /\ c.op = "Write" =>
                  /\ data' = c.arg
                  /\ <<buf, sst, worksheetOffset, cfb, sheetName>>'
                         = <<buf, sst, worksheetOffset, cfb, sheetName>>
                  /\ c.stream = <<>>
            /\ c.op = "SetSheetName" => sheetName' = c.arg /\ data' = data
            /\ c.op \in {"SaveAs", "Close"} => data' = data /\ sheetName' = sheetName
            /\ c.op = "Close" =>
                  <<buf, sst, worksheetOffset, cfb>>' = <<buf, sst, worksheetOffset, cfb>>

\* C18: after any SetSheetName, Write, SaveAs and Close calls on a Writer from
\* New() the stored sheet name is the argument of the most recent SetSheetName
\* ("Sheet1" if none) and the stored table the argument of the most recent Write
\* (empty if none); Write only stores the table, Write and Close return nil, and
\* Close and SaveAs change neither field.
C18_WriterLifecycle == []WriterFields /\ [][WriterStep]_vars

\* Close was called first, between the other calls and last, after a Write and
\* a SaveAs that failed.
C18_Witness ==
    /\ Len(calls) = 5
    /\ calls[1].op = "Close"
    /\ calls[2].op = "Write" /\ calls[2].arg # <<>>
    /\ calls[3].op = "SetSheetName" /\ calls[3].arg # DefaultSheetName
    /\ calls[4].op = "SaveAs" /\ calls[4].ret # "nil"
    /\ calls[5].op = "Close"
    /\ data = calls[2].arg
    /\ sheetName = calls[3].arg

\* The SaveAs calls of the history.
Saves == {i \in 1..Len(calls) : calls[i].op = "SaveAs"}

\* The texts of the string cells of a table.
StringTexts(d) == {d[rc[1]][rc[2]].s : rc \in StringCells(d)}

\* C20: the stream writeBIFF8 builds is a function of the Writer's table and
\* sheet name at the call: two serializations with the same table and name, the
\* first of which may be the first of the Writer, give the same bytes, and the
\* table of strings of a serialization holds the strings of the current table
\* only, with their counts.
C20_NoCrossCallState ==
    /\ \A i, j \in Saves :
          (calls[i].table = calls[j].table /\ calls[i].name = calls[j].name)
              => calls[i].stream = calls[j].stream
    /\ (calls # <<>> /\ calls[Len(calls)].op = "SaveAs") =>
          /\ buf = calls[Len(calls)].stream
          /\ Range(sst.strings) = StringTexts(data)
          /\ sst.uniqueCount = Cardinality(StringTexts(data))
          /\ sst.totalCount = Cardinality(StringCells(data))

\* SaveAs on the new Writer, then Write(A) and SaveAs, then Write of the first
\* table again and SaveAs: the third stream is the first, not the second.
C20_Witness ==
    /\ Len(calls) = 5
    /\ calls[1].op = "SaveAs"
    /\ calls[2].op = "Write" /\ StringCells(calls[2].arg) # {}
    /\ calls[3].op = "SaveAs"
    /\ calls[4].op = "Write" /\ calls[4].arg = <<>>
    /\ calls[5].op = "SaveAs"
    /\ calls[5].stream = calls[1].stream
    /\ calls[5].stream # calls[3].stream

-----------------------------------------------------------------------------
\* Claims on the cells of the default branch of writeCell, on Spec.

\* The kinds writeCell has a case for.
CasedKinds == {"string", "bool"} \cup NumericKinds

\* The cell records of the worksheet of b, in stream order: one per cell of the
\* table, rows first.
CellRecs(b, off) ==
    LET recs == Walk(b, off)
        IsCell(r) == r.type \in CellRecTypes
    IN  SelectSeq(recs, IsCell)

\* The SST index field of a LABELSST record.
SSTIndexOf(b, r) == U32At(Payload(b, r), 7)

\* The table of strings holds the texts of the string cells only.
OnlyStringCells ==
    /\ Range(sst.strings) = StringTexts(data)
    /\ sst.uniqueCount = Cardinality(StringTexts(data))
    /\ sst.totalCount = Cardinality(StringCells(data))

\* C19, as stated: a cell that is neither a string, a bool nor a number is
\* emitted as a LABELSST record with SST index 0, and its text is not added to
\* the SST.
C19_DefaultIndexZero ==
    pc = "done" =>
        LET cells == Flatten(data)
            crecs == CellRecs(buf, worksheetOffset)
        IN  /\ Len(crecs) = Len(cells)
            /\ OnlyStringCells
            /\ \A k \in 1..Len(cells) :
                  cells[k].kind \notin CasedKinds =>
                      /\ crecs[k].type = recTypeLABELSST
                      /\ SSTIndexOf(buf, crecs[k]) = 0

\* C19, amended: such a cell is emitted as a LABELSST record and its text is
\* not added to the SST; the SST index is that of a string cell with the same
\* text when the table has one, and 0 when it has none.
C19_DefaultIndexLookup ==
    pc = "done" =>
        LET cells == Flatten(data)
            crecs == CellRecs(buf, worksheetOffset)
        IN  /\ Len(crecs) = Len(cells)
            /\ OnlyStringCells
            /\ \A k \in 1..Len(cells) :
                  cells[k].kind \notin CasedKinds =>
                      /\ crecs[k].type = recTypeLABELSST
                      /\ LET text == Sprintf(cells[k])
                             at   == {j \in 1..Len(sst.strings) : sst.strings[j] = text}
                         IN  SSTIndexOf(buf, crecs[k])
                                 = IF at = {} THEN 0 ELSE Min(at) - 1

\* A cell of a named string type follows two string cells, the second with its
\* text.
C19_Witness ==
    /\ pc = "done"
    /\ data = <<<<CellString(StrWide), CellString(StrHi), CellNamed(StrHi)>>>>
    /\ SSTIndexOf(buf, CellRecs(buf, worksheetOffset)[3]) = 1

-----------------------------------------------------------------------------
\* Claims on the whole of WriteCFB, on SpecCFB.

\* WriteCFB was called, on any sink.
CfbCalled == cfb.result \notin {"idle", "none"}

\* C21: for every payload length, those above 126 * 512 = 64512 bytes included,
\* WriteCFB completes and returns nil or the error of the sink: the data sector
\* indices, the FAT sector index data_sectors and the directory sector index
\* data_sectors + 1 are all below the 128 entries of the FAT array.
C21_NoPanic ==
    CfbCalled =>
        /\ cfb.result \in {"nil", "error"}
        /\ cfb.failAt = 0 => cfb.result = "nil"
        /\ CeilSectors(cfb.len) + 1 < 128

-----------------------------------------------------------------------------
\* Reading the SST record back as the format lays it out: total count and
\* unique count (u32 each), then per string a count of UTF-16 code units (u16),
\* a flag byte and, the flag being 1, two bytes per code unit.

RECURSIVE Combine(_)
\* The code points of a sequence of UTF-16 code units.
Combine(u) ==
    IF u = <<>> THEN <<>>
    ELSE IF Len(u) >= 2 /\ u[1] \in 55296..56319 /\ u[2] \in 56320..57343
    THEN <<65536 + ((u[1] - 55296) * 1024) + (u[2] - 56320)>> \o Combine(SubSeq(u, 3, Len(u)))
    ELSE <<u[1]>> \o Combine(Tail(u))

RECURSIVE ReadStrings(_, _, _)
\* The n strings of payload b from position p on (1-based); a string that runs
\* past the end of the payload is read as <<-1>> and ends the reading.
ReadStrings(b, p, n) ==
    IF n = 0 THEN <<>>
    ELSE IF p + 2 > Len(b) THEN <<<<-1>>>>
    ELSE LET cch == U16At(b, p)
         IN  IF p + 2 + (2 * cch) > Len(b) THEN <<<<-1>>>>
             ELSE <<Combine([i \in 1..cch |-> U16At(b, p + 1 + (2 * i))])>>
                  \o ReadStrings(b, p + 3 + (2 * cch), n - 1)

\* The SST record of the workbook globals of b.
SSTRecord(b) ==
    LET recs == Walk(b, 0) IN recs[Min(IndicesOf(recs, recTypeSST))]

\* The unique count the SST record states, and the strings it holds.
EmittedUnique(b) == U32At(Payload(b, SSTRecord(b)), 5)

EmittedStrings(b) == ReadStrings(Payload(b, SSTRecord(b)), 9, EmittedUnique(b))

\* The text of a cell that writeCell sends to writeLabelSST.
Text(c) == IF c.kind = "string" THEN c.s ELSE Sprintf(c)

\* C22: every LABELSST record carries an index idx with 0 <= idx < unique_count
\* and the idx-th string of the emitted SST record is the text of its cell; two
\* cells get the same index exactly when their texts are equal.
C22_LabelRefersToText ==
    pc = "done" =>
        LET cells  == Flatten(data)
            crecs  == CellRecs(buf, worksheetOffset)
            strs   == EmittedStrings(buf)
            labels == {k \in 1..Len(crecs) : crecs[k].type = recTypeLABELSST}
            idx(k) == SSTIndexOf(buf, crecs[k])
        IN  /\ Len(crecs) = Len(cells)
            /\ \A k \in labels :
                  /\ idx(k) < EmittedUnique(buf)
                  /\ idx(k) < Len(strs)
                  /\ strs[idx(k) + 1] = Text(cells[k])
            /\ \A k, l \in labels : idx(k) = idx(l) <=> Text(cells[k]) = Text(cells[l])

-----------------------------------------------------------------------------
\* SpecRow: one turn of the outer loop of writeRowsAndCells, on the row at
\* index rowIndex of a table of any number of rows; data holds that row only.

InitRow ==
    /\ rowIndex \in WideIndices
    /\ data \in {<<row>> : row \in RowsUpTo(2)}
    /\ sst = PreWalk(data, newSST)
    /\ buf = <<>>
    /\ pc = "row"
    /\ calls = <<>>
    /\ colIndex = 0 /\ cell = CellNil
    /\ sheetName = DefaultSheetName /\ worksheetOffset = 0
    /\ IdleDim
    /\ cfb = NoCfb /\ IdleRec

\* Lines 849-859.
WriteRowTurn ==
    /\ pc = "row"
    /\ buf' = writeRowAt(rowIndex, data[1], sst)
    /\ pc' = "rowDone"
    /\ UNCHANGED <<data, sheetName, sst, worksheetOffset, calls, rowIndex, colIndex,
                   cell, rowLens, cfb, rec>>

NextRow == WriteRowTurn

SpecRow == InitRow /\ [][NextRow]_vars

\* C23, for the row at index r of any table: its ROW record holds row index r,
\* first column 0 and last column (exclusive) the length of the row, and is
\* followed at once by the cell records of row r in increasing column order,
\* nothing else coming before the next ROW record.
C23_RowThenItsCells ==
    pc = "rowDone" =>
        LET recs == Walk(buf, 0)
            row  == data[1]
        IN  /\ Len(recs) = 1 + Len(row)
            /\ recs[1].type = recTypeROW
            /\ recs[1].len = 16
            /\ U16At(Payload(buf, recs[1]), 1) = rowIndex
            /\ U16At(Payload(buf, recs[1]), 3) = 0
            /\ U16At(Payload(buf, recs[1]), 5) = Len(row)
            /\ \A c \in 1..Len(row) :
                  /\ recs[1 + c].type \in CellRecTypes
                  /\ U16At(Payload(buf, recs[1 + c]), 1) = rowIndex
                  /\ U16At(Payload(buf, recs[1 + c]), 3) = c - 1

-----------------------------------------------------------------------------
\* Claims on the writes of WriteCFB to its sink, on SpecCFB.

\* The four writes, in file order.
WriteOrder == <<"header", "data", "fat", "directory">>

\* The kinds of the writes the sink accepted.
WriteKinds == [i \in 1..Len(cfb.writes) |-> cfb.writes[i].kind]

\* C24: the writes go to the sink forward only, in the order header (512
\* bytes), padded payload, FAT sector, directory sector; when a write fails
\* WriteCFB returns that error at once and makes no later write: the writes are
\* always a prefix of the four, with no retry and no rollback.
C24_ForwardOnlyWrites ==
    CfbCalled =>
        /\ Len(cfb.writes) <= 4
        /\ WriteKinds = SubSeq(WriteOrder, 1, Len(cfb.writes))
        /\ Len(cfb.writes) >= 1 => cfb.writes[1].size = 512
        /\ cfb.result = "error" => cfb.failAt = Len(cfb.writes) + 1
        /\ cfb.failAt \in {1, 2} => cfb.result = "error"
        /\ (cfb.failAt \in {3, 4} /\ cfb.result # "panic") => cfb.result = "error"
        /\ cfb.result = "nil" => Len(cfb.writes) = 4 /\ cfb.failAt = 0
        /\ cfb.result = "panic" => WriteKinds = <<"header", "data">>

\* The third write failed, after the header and the payload were accepted.
C24_Witness ==
    /\ CfbCalled
    /\ cfb.failAt = 3
    /\ cfb.result = "error"
    /\ WriteKinds = <<"header", "data">>

-----------------------------------------------------------------------------
\* SpecPad: WriteCFB on payloads whose bytes are modelled; buf holds the payload,
\* as in SaveAs, which hands buf.Bytes() to WriteCFB.

\* paddedData without the floor of 4096 bytes: padded to the sector only.
BadPaddedData(workbookData) ==
    workbookData
        \o Zeros((((Len(workbookData) + cfbSectorSize - 1) \div cfbSectorSize) * cfbSectorSize)
                    - Len(workbookData))

\* Lines 168-169: dataSectors * cfbSectorSize zero bytes with the payload copied
\* to their start.
PaddedData(workbookData) ==
    workbookData
        \o Zeros((DataSectors(Len(workbookData)) * cfbSectorSize) - Len(workbookData))

\* WriteCFB with the bytes of the payload: what WriteCFB does on its length, and
\* the padded payload when the sink accepted it.
WriteCFBBytes(workbookData, failAt) ==
    LET c == WriteCFB(Len(workbookData), failAt)
    IN  [c EXCEPT !.data = IF Len(c.writes) >= 2 THEN PaddedData(workbookData) ELSE <<>>]

\* The payload lengths, around the sector, the floor and the one-FAT-sector limit.
PadLens == {0, 1, 511, 512, 513, 4095, 4096, 4097, 4608, 5000, 64512, 64513}

\* Payloads of non-zero bytes, so that padding shows.
PadPayloads == {[i \in 1..n |-> 1 + ((i * k) % 255)] : n \in PadLens, k \in {1, 7}}

InitPad ==
    /\ buf \in PadPayloads
    /\ cfb \in {CfbCall(Len(buf), f) : f \in 0..4}
    /\ pc = "pad"
    /\ data = <<>> /\ sheetName = DefaultSheetName /\ worksheetOffset = 0
    /\ IdleSST /\ IdleCell /\ IdleDim /\ IdleRec

CallWriteCFBBytes ==
    /\ pc = "pad"
    /\ cfb' = WriteCFBBytes(buf, cfb.failAt)
    /\ pc' = "padDone"
    /\ UNCHANGED <<data, sheetName, sst, buf, worksheetOffset, calls, rowIndex,
                   colIndex, cell, rowLens, rec>>

NextPad == CallWriteCFBBytes

SpecPad == InitPad /\ [][NextPad]_vars

\* The sink accepted the header and the payload sectors: file offsets 0..511
\* hold the header, and offset 512 + i holds cfb.data[i + 1].
PayloadWritten ==
    /\ pc = "padDone"
    /\ Len(cfb.writes) >= 2
    /\ cfb.writes[1].size = 512
    /\ cfb.writes[2].kind = "data"

\* C25: for every payload of n bytes the bytes written at file offsets 512 ..
\* 512 + n - 1 are the payload in order, and every byte from 512 + n to
\* 512 + 512 * data_sectors - 1 is zero, data_sectors = ceil(max(n, 4096) / 512);
\* the payload passed in is not modified.
C25_PayloadThenZeros ==
    /\ [](PayloadWritten =>
             LET n == Len(buf)
             IN  /\ Len(cfb.data) = 512 * CeilSectors(n)
                 /\ cfb.writes[2].size = Len(cfb.data)
                 /\ SubSeq(cfb.data, 1, n) = buf
                 /\ \A i \in (n + 1)..Len(cfb.data) : cfb.data[i] = 0)
    /\ [][buf' = buf]_vars

\* A payload of one sector and one byte was written, padded to eight sectors.
C25_Witness ==
    /\ PayloadWritten
    /\ Len(buf) = 513
    /\ cfb.result = "nil"
    /\ Len(cfb.data) = 4096
    /\ cfb.data[513] = buf[513]
    /\ cfb.data[514] = 0

====
